---- MODULE Spec2Model ----
(***************************************************************************)
(* Model of the shipwright CLI reactive core:                              *)
(*   - reactor.PodWatcher (event loop over a pod watch),                   *)
(*   - tail.Tail (concurrent log streaming),                               *)
(*   - flags.SanitizeBuildRunSpec (pruning of an empty BuildRunSpec),        *)
(* Each component is a state machine with one action per handler or        *)
(* goroutine step.                                                         *)
(***************************************************************************)
EXTENDS Integers, Sequences, FiniteSets, TLC

\* ------------------------------------------------------------------ bounds
\* number of notifications the remote side delivers on the result channel
MaxEvents == 2
\* number of calls to PodWatcher.Stop
MaxPwStops == 2

\* number of calls to Tail.Start
MaxAtt == 2
\* number of lines the remote side sends on one log stream
MaxLines == 2
\* number of calls to Tail.Stop
MaxTailStops == 2

\* -------------------------------------------------------------- vocabulary
\* event.Object: nil, an object of another kind (a *metav1.Status), or a pod
NilObj == "nil"
NotPod == "status"
Pods == {"pod"}
Objects == {NilObj, NotPod} \cup Pods

\* watch.EventType; "" is the type of the zero Event read from a closed channel
HookTypes == {"ADDED", "MODIFIED", "DELETED"}
ZeroEvent == [Type |-> "", Object |-> NilObj]
\* what a pod watch delivers: a change of a pod, with the pod or without any
\* payload, a bookmark, or an error carrying a status object
Events ==
  [Type : HookTypes, Object : {NilObj} \cup Pods]
    \cup [Type : {"BOOKMARK"}, Object : Pods]
    \cup {[Type |-> "ERROR", Object |-> NotPod]}

\* error values returned by hooks; NoErr is the nil error
NoErr == "nil"
Errs == {"e1"}

VARIABLES
  \* PodWatcher fields
  skipPodFn,        \* TRUE when a skip predicate is registered
  onPodAddedFn,     \* TRUE when the hook is registered
  onPodModifiedFn,
  onPodDeletedFn,
  pwStopClosed,     \* p.stopCh is closed
  pwCtxDone,        \* p.ctx is cancelled
  \* watch.Interface
  delivered,        \* every notification sent on ResultChan(), in delivery order
  recvd,            \* how many of them Start has received
  chanClosed,       \* remote side closed ResultChan()
  watcherStops,     \* number of calls of watcher.Stop()
  \* PodWatcher.Start
  pwPc,             \* position of Start
  event,            \* the event of the current iteration
  evIdx,            \* its index in delivered (0 for the zero event)
  retPod, retErr,   \* values returned by Start
  calls,            \* invocations of skipPodFn and of the hooks, in order
  pwStops,          \* number of calls of PodWatcher.Stop
  stopInRun,        \* PodWatcher.Stop was called while Start was running
  pwPanic           \* close of a closed channel panicked

pwVars == <<skipPodFn, onPodAddedFn, onPodModifiedFn, onPodDeletedFn,
            pwStopClosed, pwCtxDone, delivered, recvd, chanClosed,
            watcherStops, pwPc, event, evIdx, retPod, retErr, calls,
            pwStops, stopInRun, pwPanic>>


Atts == 1..MaxAtt

VARIABLES
  \* Tail fields
  tStopClosed,      \* t.stopCh is closed
  tCtxDone,         \* t.ctx is cancelled
  \* calls
  nAtt,             \* number of calls of Tail.Start; call i owns attachment i
  tStops,           \* number of calls of Tail.Stop
  tPanic,           \* "none", or the function whose close(t.stopCh) panicked
  \* goroutines of attachment i
  rdPc,             \* reader (lines 38-60): "idle", "open", "scan", "done"
  closerPc,         \* stream closer (lines 50-53): "none", "wait", "done"
  bridgePc,         \* context bridge (lines 61-64): "none", "wait", "done"
  \* log stream of attachment i
  stream,           \* "none", "open", "closed"
  container,        \* the container name given to Start
  closes,           \* number of calls of stream.Close()
  sent,             \* number of lines the remote side has sent
  remote,           \* "live", "eof" (remote closed the stream), "err" (read error)
  pos,              \* number of lines the scanner has returned
  \* sinks
  stdout,           \* stdout[i]: what reader i wrote to t.stdout, in order
  stderr            \* what was written to t.stderr, in order

tailVars == <<tStopClosed, tCtxDone, nAtt, tStops, tPanic, rdPc, closerPc,
              bridgePc, container, stream, closes, sent, remote, pos, stdout,
              stderr>>

VARIABLES
  brIn,             \* the *BuildRunSpec handed to SanitizeBuildRunSpec
  br,               \* the same object, as the function leaves it
  sanPc             \* "none", "call" (before the call) or "done" (after it)

sanVars == <<brIn, br, sanPc>>

vars == <<pwVars, tailVars, sanVars>>

\* ------------------------------------------------------------- PodWatcher
\* NewPodWatcher: no function registered, stop channel open
PwInit ==
  /\ skipPodFn = FALSE
  /\ onPodAddedFn = FALSE
  /\ onPodModifiedFn = FALSE
  /\ onPodDeletedFn = FALSE
  /\ pwStopClosed = FALSE
  /\ pwCtxDone = FALSE
  /\ delivered = <<>>
  /\ recvd = 0
  /\ chanClosed = FALSE
  /\ watcherStops = 0
  /\ pwPc = "new"
  /\ event = ZeroEvent
  /\ evIdx = 0
  /\ retPod = NilObj
  /\ retErr = NoErr
  /\ calls = <<>>
  /\ pwStops = 0
  /\ stopInRun = FALSE
  /\ pwPanic = FALSE

PwReturned == pwPc \in {"ret_hook", "ret_ctx", "ret_stop"}
PwRunning == pwPc \in {"select", "skip", "switch"}

\* the builder methods, called before Start
WithSkipPodFn ==
  /\ pwPc = "new" /\ ~pwPanic
  /\ skipPodFn' = TRUE
  /\ UNCHANGED <<tailVars, sanVars>>
  /\ UNCHANGED <<onPodAddedFn, onPodModifiedFn, onPodDeletedFn, pwStopClosed,
                 pwCtxDone, delivered, recvd, chanClosed, watcherStops, pwPc,
                 event, evIdx, retPod, retErr, calls, pwStops, stopInRun,
                 pwPanic>>

WithOnPodAddedFn ==
  /\ pwPc = "new" /\ ~pwPanic
  /\ onPodAddedFn' = TRUE
  /\ UNCHANGED <<tailVars, sanVars>>
  /\ UNCHANGED <<skipPodFn, onPodModifiedFn, onPodDeletedFn, pwStopClosed,
                 pwCtxDone, delivered, recvd, chanClosed, watcherStops, pwPc,
                 event, evIdx, retPod, retErr, calls, pwStops, stopInRun,
                 pwPanic>>

WithOnPodModifiedFn ==
  /\ pwPc = "new" /\ ~pwPanic
  /\ onPodModifiedFn' = TRUE
  /\ UNCHANGED <<tailVars, sanVars>>
  /\ UNCHANGED <<skipPodFn, onPodAddedFn, onPodDeletedFn, pwStopClosed,
                 pwCtxDone, delivered, recvd, chanClosed, watcherStops, pwPc,
                 event, evIdx, retPod, retErr, calls, pwStops, stopInRun,
                 pwPanic>>

WithOnPodDeletedFn ==
  /\ pwPc = "new" /\ ~pwPanic
  /\ onPodDeletedFn' = TRUE
  /\ UNCHANGED <<tailVars, sanVars>>
  /\ UNCHANGED <<skipPodFn, onPodAddedFn, onPodModifiedFn, pwStopClosed,
                 pwCtxDone, delivered, recvd, chanClosed, watcherStops, pwPc,
                 event, evIdx, retPod, retErr, calls, pwStops, stopInRun,
                 pwPanic>>

\* the caller enters Start: the loop is at its select
StartCall ==
  /\ pwPc = "new" /\ ~pwPanic
  /\ pwPc' = "select"
  /\ UNCHANGED <<tailVars, sanVars>>
  /\ UNCHANGED <<skipPodFn, onPodAddedFn, onPodModifiedFn, onPodDeletedFn,
                 pwStopClosed, pwCtxDone, delivered, recvd, chanClosed,
                 watcherStops, event, evIdx, retPod, retErr, calls, pwStops,
                 stopInRun, pwPanic>>

\* the remote side sends one notification on the result channel
Deliver ==
  /\ ~pwPanic /\ ~chanClosed
  /\ Len(delivered) < MaxEvents
  /\ \E e \in Events : delivered' = Append(delivered, e)
  /\ UNCHANGED <<tailVars, sanVars>>
  /\ UNCHANGED <<skipPodFn, onPodAddedFn, onPodModifiedFn, onPodDeletedFn,
                 pwStopClosed, pwCtxDone, recvd, chanClosed, watcherStops,
                 pwPc, event, evIdx, retPod, retErr, calls, pwStops, stopInRun,
                 pwPanic>>

\* the remote side closes the result channel
RemoteClose ==
  /\ ~pwPanic /\ ~chanClosed
  /\ chanClosed' = TRUE
  /\ UNCHANGED <<tailVars, sanVars>>
  /\ UNCHANGED <<skipPodFn, onPodAddedFn, onPodModifiedFn, onPodDeletedFn,
                 pwStopClosed, pwCtxDone, delivered, recvd, watcherStops,
                 pwPc, event, evIdx, retPod, retErr, calls, pwStops, stopInRun,
                 pwPanic>>

\* the upstream context is cancelled
PwCtxCancel ==
  /\ ~pwPanic /\ ~pwCtxDone
  /\ pwCtxDone' = TRUE
  /\ UNCHANGED <<tailVars, sanVars>>
  /\ UNCHANGED <<skipPodFn, onPodAddedFn, onPodModifiedFn, onPodDeletedFn,
                 pwStopClosed, delivered, recvd, chanClosed, watcherStops,
                 pwPc, event, evIdx, retPod, retErr, calls, pwStops, stopInRun,
                 pwPanic>>

\* a check of the payload without the type assertion
IsPodEvent_AnyObject(e) == e.Object # NilObj

\* an event whose Object is a *corev1.Pod passes the checks of lines 65-71
IsPodEvent(e) == e.Object \in Pods

\* a loop that takes the zero event of a closed channel for the end of the watch
AfterRecv_ExitOnZero(e) ==
  IF IsPodEvent(e) THEN "skip"
  ELSE IF e.Type = "" THEN "ret_stop" ELSE "select"

\* where Start goes after it received e: on to the skip predicate, or back to
\* the select (continue) when the object is nil or not a pod
AfterRecv(e) == IF IsPodEvent(e) THEN "skip" ELSE "select"

\* case event := <-p.watcher.ResultChan(): a buffered notification, or the zero
\* event of a closed and drained channel
StartRecv ==
  /\ pwPc = "select" /\ ~pwPanic
  /\ \/ /\ recvd < Len(delivered)
        /\ event' = delivered[recvd + 1]
        /\ evIdx' = recvd + 1
        /\ recvd' = recvd + 1
     \/ /\ recvd = Len(delivered) /\ chanClosed
        /\ event' = ZeroEvent
        /\ evIdx' = 0
        /\ recvd' = recvd
  /\ pwPc' = AfterRecv(event')
  /\ UNCHANGED <<tailVars, sanVars>>
  /\ UNCHANGED <<skipPodFn, onPodAddedFn, onPodModifiedFn, onPodDeletedFn,
                 pwStopClosed, pwCtxDone, delivered, chanClosed, watcherStops,
                 retPod, retErr, calls, pwStops, stopInRun,
                 pwPanic>>

\* if p.skipPodFn != nil && p.skipPodFn(pod) { continue }
\* the predicate is the caller's: its answer is any boolean
StartSkip ==
  /\ pwPc = "skip" /\ ~pwPanic
  /\ \/ /\ ~skipPodFn
        /\ pwPc' = "switch"
        /\ calls' = calls
     \/ /\ skipPodFn
        /\ \E r \in BOOLEAN :
             /\ calls' = Append(calls, [fn |-> "skip", idx |-> evIdx,
                                         pod |-> event.Object, skip |-> r,
                                         err |-> NoErr])
             /\ pwPc' = IF r THEN "select" ELSE "switch"
  /\ UNCHANGED <<tailVars, sanVars>>
  /\ UNCHANGED <<skipPodFn, onPodAddedFn, onPodModifiedFn, onPodDeletedFn,
                 pwStopClosed, pwCtxDone, delivered, recvd, chanClosed,
                 watcherStops, event, evIdx, retPod, retErr, pwStops, stopInRun,
                 pwPanic>>

\* a switch whose Modified case calls the hook of Added
HookOf_WrongCase(type) ==
  CASE type = "ADDED" -> "added"
    [] type = "MODIFIED" -> "added"
    [] type = "DELETED" -> "deleted"
    [] OTHER -> "none"

\* switch event.Type: the hook field that the case of this type calls
HookOf(type) ==
  CASE type = "ADDED" -> "added"
    [] type = "MODIFIED" -> "modified"
    [] type = "DELETED" -> "deleted"
    [] OTHER -> "none"

\* a switch that calls the hook field without the nil check
Registered_Unchecked(h) == TRUE

\* whether that hook field is non-nil
Registered(h) ==
  CASE h = "added" -> onPodAddedFn
    [] h = "modified" -> onPodModifiedFn
    [] h = "deleted" -> onPodDeletedFn
    [] OTHER -> FALSE

\* a loop that drops the error of the hook and goes on
AfterHook_IgnoreErr(err) == "select"

\* if err := hook(pod); err != nil { return pod, err }
AfterHook(err) == IF err # NoErr THEN "ret_hook" ELSE "select"

\* lines 77-96: the switch on the event type and the call of the hook
StartSwitch ==
  /\ pwPc = "switch" /\ ~pwPanic
  /\ LET h == HookOf(event.Type) IN
       \/ /\ ~Registered(h)
          /\ pwPc' = "select"
          /\ UNCHANGED <<calls, retPod, retErr>>
       \/ /\ Registered(h)
          /\ \E err \in {NoErr} \cup Errs :
               /\ calls' = Append(calls, [fn |-> h, idx |-> evIdx,
                                           pod |-> event.Object, skip |-> FALSE,
                                           err |-> err])
               /\ pwPc' = AfterHook(err)
               /\ IF err # NoErr
                    THEN retPod' = event.Object /\ retErr' = err
                    ELSE UNCHANGED <<retPod, retErr>>
  /\ UNCHANGED <<tailVars, sanVars>>
  /\ UNCHANGED <<skipPodFn, onPodAddedFn, onPodModifiedFn, onPodDeletedFn,
                 pwStopClosed, pwCtxDone, delivered, recvd, chanClosed,
                 watcherStops, event, evIdx, pwStops, stopInRun,
                 pwPanic>>

\* an exit that leaves the watch open
WatcherStop_Skipped(n) == n

\* p.watcher.Stop(), counted
WatcherStop(n) == n + 1

\* case <-p.ctx.Done(): p.watcher.Stop(); return nil, nil
StartCtxDone ==
  /\ pwPc = "select" /\ ~pwPanic
  /\ pwCtxDone
  /\ watcherStops' = WatcherStop(watcherStops)
  /\ retPod' = NilObj
  /\ retErr' = NoErr
  /\ pwPc' = "ret_ctx"
  /\ UNCHANGED <<tailVars, sanVars>>
  /\ UNCHANGED <<skipPodFn, onPodAddedFn, onPodModifiedFn, onPodDeletedFn,
                 pwStopClosed, pwCtxDone, delivered, recvd, chanClosed,
                 event, evIdx, calls, pwStops, stopInRun,
                 pwPanic>>

\* case <-p.stopCh: p.watcher.Stop(); return nil, nil
StartStopCh ==
  /\ pwPc = "select" /\ ~pwPanic
  /\ pwStopClosed
  /\ watcherStops' = WatcherStop(watcherStops)
  /\ retPod' = NilObj
  /\ retErr' = NoErr
  /\ pwPc' = "ret_stop"
  /\ UNCHANGED <<tailVars, sanVars>>
  /\ UNCHANGED <<skipPodFn, onPodAddedFn, onPodModifiedFn, onPodDeletedFn,
                 pwStopClosed, pwCtxDone, delivered, recvd, chanClosed,
                 event, evIdx, calls, pwStops, stopInRun,
                 pwPanic>>

\* close(ch) on a channel: closing a closed channel panics
ClosePanics(closed) == closed

\* PodWatcher.Stop: close(p.stopCh)
PwStop ==
  /\ ~pwPanic
  /\ pwStops < MaxPwStops
  /\ pwStops' = pwStops + 1
  /\ stopInRun' = (stopInRun \/ PwRunning)
  /\ pwPanic' = ClosePanics(pwStopClosed)
  /\ pwStopClosed' = TRUE
  /\ UNCHANGED <<tailVars, sanVars>>
  /\ UNCHANGED <<skipPodFn, onPodAddedFn, onPodModifiedFn, onPodDeletedFn,
                 pwCtxDone, delivered, recvd, chanClosed, watcherStops, pwPc,
                 event, evIdx, retPod, retErr, calls>>

PwNext ==
  \/ WithSkipPodFn
  \/ WithOnPodAddedFn
  \/ WithOnPodModifiedFn
  \/ WithOnPodDeletedFn
  \/ StartCall
  \/ Deliver
  \/ RemoteClose
  \/ PwCtxCancel
  \/ StartRecv
  \/ StartSkip
  \/ StartSwitch
  \/ StartCtxDone
  \/ StartStopCh
  \/ PwStop

\* ------------------------------------------------------------------- Tail
\* the container name given to the i-th call of Start, as a sequence of text
\* segments: with the "step-" prefix, without it, and with it twice
ContainerOf(i) ==
  CASE i % 3 = 1 -> <<"step-", "build">>
    [] i % 3 = 2 -> <<"push">>
    [] OTHER -> <<"step-", "step-", "x">>

\* a display name that keeps the prefix
TrimPrefix_None(s, prefix) == s

\* strings.TrimPrefix(s, prefix): s without the leading prefix, if it has one
TrimPrefix(s, prefix) ==
  IF Len(s) >= 1 /\ s[1] = prefix THEN Tail(s) ELSE s

\* fmt.Fprintf(t.stdout, "[%s] %s\n", containerName, sc.Text())
FormatLine(containerName, text) == <<"[", containerName, "] ", text, "\n">>

\* the k-th line of a log stream
LineText(k) == k

\* NewTail: an open stop channel, no goroutine yet
TailInit ==
  /\ tStopClosed = FALSE
  /\ tCtxDone = FALSE
  /\ nAtt = 0
  /\ tStops = 0
  /\ tPanic = "none"
  /\ rdPc = [i \in Atts |-> "idle"]
  /\ closerPc = [i \in Atts |-> "none"]
  /\ bridgePc = [i \in Atts |-> "none"]
  /\ container = [i \in Atts |-> <<>>]
  /\ stream = [i \in Atts |-> "none"]
  /\ closes = [i \in Atts |-> 0]
  /\ sent = [i \in Atts |-> 0]
  /\ remote = [i \in Atts |-> "live"]
  /\ pos = [i \in Atts |-> 0]
  /\ stdout = [i \in Atts |-> <<>>]
  /\ stderr = <<>>

\* a panic that nothing recovers ends the process and all of its goroutines
TailUp == tPanic = "none"

\* a Start that waits for the readers started before it
TailStart_AfterReaders ==
  /\ TailUp
  /\ nAtt < MaxAtt
  /\ \A j \in 1..nAtt : rdPc[j] = "done"
  /\ LET i == nAtt + 1 IN
       /\ nAtt' = i
       /\ container' = [container EXCEPT ![i] = ContainerOf(i)]
       /\ rdPc' = [rdPc EXCEPT ![i] = "open"]
       /\ bridgePc' = [bridgePc EXCEPT ![i] = "wait"]
  /\ UNCHANGED <<pwVars, sanVars>>
  /\ UNCHANGED <<tStopClosed, tCtxDone, tStops, tPanic, closerPc, stream,
                 closes, sent, remote, pos, stdout, stderr>>

\* Tail.Start: spawns the reader goroutine and the context bridge goroutine
TailStart ==
  /\ TailUp
  /\ nAtt < MaxAtt
  /\ LET i == nAtt + 1 IN
       /\ nAtt' = i
       /\ container' = [container EXCEPT ![i] = ContainerOf(i)]
       /\ rdPc' = [rdPc EXCEPT ![i] = "open"]
       /\ bridgePc' = [bridgePc EXCEPT ![i] = "wait"]
  /\ UNCHANGED <<pwVars, sanVars>>
  /\ UNCHANGED <<tStopClosed, tCtxDone, tStops, tPanic, closerPc, stream,
                 closes, sent, remote, pos, stdout, stderr>>

\* an open failure reported on t.stdout
ReaderOpenFail_ToStdout(i) ==
  /\ TailUp
  /\ rdPc[i] = "open"
  /\ stdout' = [stdout EXCEPT ![i] = Append(@, <<"openErr", "\n">>)]
  /\ rdPc' = [rdPc EXCEPT ![i] = "done"]
  /\ UNCHANGED <<pwVars, sanVars>>
  /\ UNCHANGED <<tStopClosed, tCtxDone, nAtt, tStops, tPanic, closerPc,
                 bridgePc, container, stream, closes, sent, remote, pos,
                 stderr>>

\* lines 39-47, open failure: the error goes to t.stderr and the reader returns
ReaderOpenFail(i) ==
  /\ TailUp
  /\ rdPc[i] = "open"
  /\ stderr' = Append(stderr, [att |-> i, err |-> "openErr"])
  /\ rdPc' = [rdPc EXCEPT ![i] = "done"]
  /\ UNCHANGED <<pwVars, sanVars>>
  /\ UNCHANGED <<tStopClosed, tCtxDone, nAtt, tStops, tPanic, closerPc,
                 bridgePc, container, stream, closes, sent, remote, pos,
                 stdout>>

\* lines 39-53, open success: the reader holds an open stream, has deferred its
\* Close and has spawned the closer goroutine
ReaderOpenOk(i) ==
  /\ TailUp
  /\ rdPc[i] = "open"
  /\ stream' = [stream EXCEPT ![i] = "open"]
  /\ closerPc' = [closerPc EXCEPT ![i] = "wait"]
  /\ rdPc' = [rdPc EXCEPT ![i] = "scan"]
  /\ UNCHANGED <<pwVars, sanVars>>
  /\ UNCHANGED <<tStopClosed, tCtxDone, nAtt, tStops, tPanic, bridgePc,
                 container, closes, sent, remote, pos, stdout, stderr>>

\* the remote side sends one more line on an open stream, once the reader has
\* taken the line before it
RemoteSend(i) ==
  /\ TailUp
  /\ stream[i] = "open" /\ remote[i] = "live"
  /\ sent[i] < MaxLines /\ pos[i] = sent[i]
  /\ sent' = [sent EXCEPT ![i] = @ + 1]
  /\ UNCHANGED <<pwVars, sanVars>>
  /\ UNCHANGED <<tStopClosed, tCtxDone, nAtt, tStops, tPanic, rdPc, closerPc,
                 bridgePc, container, stream, closes, remote, pos, stdout,
                 stderr>>

\* the stream ends, after the lines sent before its end: the remote side
\* closes it, or reading it fails
RemoteEnd(i) ==
  /\ TailUp
  /\ stream[i] = "open" /\ remote[i] = "live" /\ pos[i] = sent[i]
  /\ \E how \in {"eof", "err"} : remote' = [remote EXCEPT ![i] = how]
  /\ UNCHANGED <<pwVars, sanVars>>
  /\ UNCHANGED <<tStopClosed, tCtxDone, nAtt, tStops, tPanic, rdPc, closerPc,
                 bridgePc, container, stream, closes, sent, pos, stdout,
                 stderr>>

\* sc.Scan() returns false: the stream was closed under the reader, or it
\* ended and every line received was returned
ScanEnds(i) ==
  \/ stream[i] = "closed"
  \/ pos[i] = sent[i] /\ remote[i] # "live"

\* lines 57-59, one iteration: sc.Scan() returned a line, which is written
ReaderLine(i) ==
  /\ TailUp
  /\ rdPc[i] = "scan"
  /\ pos[i] < sent[i]
  /\ pos' = [pos EXCEPT ![i] = @ + 1]
  /\ stdout' = [stdout EXCEPT ![i] =
        Append(@, FormatLine(TrimPrefix(container[i], "step-"),
                             LineText(pos[i] + 1)))]
  /\ UNCHANGED <<pwVars, sanVars>>
  /\ UNCHANGED <<tStopClosed, tCtxDone, nAtt, tStops, tPanic, rdPc, closerPc,
                 bridgePc, container, stream, closes, sent, remote, stderr>>

\* a reader that reports the read error that ended its scan
ReaderEnd_ReportsErr(i) ==
  /\ TailUp
  /\ rdPc[i] = "scan"
  /\ ScanEnds(i)
  /\ stream' = [stream EXCEPT ![i] = "closed"]
  /\ closes' = [closes EXCEPT ![i] = @ + 1]
  /\ rdPc' = [rdPc EXCEPT ![i] = "done"]
  /\ stderr' = IF remote[i] = "err"
                 THEN Append(stderr, [att |-> i, err |-> "readErr"])
                 ELSE stderr
  /\ UNCHANGED <<pwVars, sanVars>>
  /\ UNCHANGED <<tStopClosed, tCtxDone, nAtt, tStops, tPanic, closerPc,
                 bridgePc, container, sent, remote, pos, stdout>>

\* a reader that returns without closing its stream
ReaderEnd_NoClose(i) ==
  /\ TailUp
  /\ rdPc[i] = "scan"
  /\ ScanEnds(i)
  /\ rdPc' = [rdPc EXCEPT ![i] = "done"]
  /\ UNCHANGED <<pwVars, sanVars>>
  /\ UNCHANGED <<tStopClosed, tCtxDone, nAtt, tStops, tPanic, closerPc,
                 bridgePc, container, stream, closes, sent, remote, pos,
                 stdout, stderr>>

\* lines 57-60: sc.Scan() returned false, the deferred stream.Close() runs and
\* the reader returns
ReaderEnd(i) ==
  /\ TailUp
  /\ rdPc[i] = "scan"
  /\ ScanEnds(i)
  /\ stream' = [stream EXCEPT ![i] = "closed"]
  /\ closes' = [closes EXCEPT ![i] = @ + 1]
  /\ rdPc' = [rdPc EXCEPT ![i] = "done"]
  /\ UNCHANGED <<pwVars, sanVars>>
  /\ UNCHANGED <<tStopClosed, tCtxDone, nAtt, tStops, tPanic, closerPc,
                 bridgePc, container, sent, remote, pos, stdout, stderr>>

\* lines 50-53: <-t.stopCh returns once the channel is closed; stream.Close()
Closer(i) ==
  /\ TailUp
  /\ closerPc[i] = "wait"
  /\ tStopClosed
  /\ stream' = [stream EXCEPT ![i] = "closed"]
  /\ closes' = [closes EXCEPT ![i] = @ + 1]
  /\ closerPc' = [closerPc EXCEPT ![i] = "done"]
  /\ UNCHANGED <<pwVars, sanVars>>
  /\ UNCHANGED <<tStopClosed, tCtxDone, nAtt, tStops, tPanic, rdPc, bridgePc,
                 container, sent, remote, pos, stdout, stderr>>

\* lines 61-64: <-t.ctx.Done() returns once the context is cancelled;
\* close(t.stopCh)
Bridge(i) ==
  /\ TailUp
  /\ bridgePc[i] = "wait"
  /\ tCtxDone
  /\ tPanic' = IF ClosePanics(tStopClosed) THEN "bridge" ELSE "none"
  /\ tStopClosed' = TRUE
  /\ bridgePc' = [bridgePc EXCEPT ![i] = "done"]
  /\ UNCHANGED <<pwVars, sanVars>>
  /\ UNCHANGED <<tCtxDone, nAtt, tStops, rdPc, closerPc, container, stream,
                 closes, sent, remote, pos, stdout, stderr>>

\* Tail.Stop: close(t.stopCh)
TailStop ==
  /\ TailUp
  /\ tStops < MaxTailStops
  /\ tStops' = tStops + 1
  /\ tPanic' = IF ClosePanics(tStopClosed) THEN "Stop" ELSE "none"
  /\ tStopClosed' = TRUE
  /\ UNCHANGED <<pwVars, sanVars>>
  /\ UNCHANGED <<tCtxDone, nAtt, rdPc, closerPc, bridgePc, container, stream,
                 closes, sent, remote, pos, stdout, stderr>>

\* the upstream context is cancelled
TailCtxCancel ==
  /\ TailUp /\ ~tCtxDone
  /\ tCtxDone' = TRUE
  /\ UNCHANGED <<pwVars, sanVars>>
  /\ UNCHANGED <<tStopClosed, nAtt, tStops, tPanic, rdPc, closerPc, bridgePc,
                 container, stream, closes, sent, remote, pos, stdout, stderr>>

TailNext ==
  \/ TailStart
  \/ \E i \in Atts : ReaderOpenFail(i)
  \/ \E i \in Atts : ReaderOpenOk(i)
  \/ \E i \in Atts : RemoteSend(i)
  \/ \E i \in Atts : RemoteEnd(i)
  \/ \E i \in Atts : ReaderLine(i)
  \/ \E i \in Atts : ReaderEnd(i)
  \/ \E i \in Atts : Closer(i)
  \/ \E i \in Atts : Bridge(i)
  \/ TailStop
  \/ TailCtxCancel

\* ------------------------------------------------------- BuildRunSpec flags
\* A pointer is a sequence: <<>> is nil, <<v>> points to v.
StrPtrs == {<<>>, <<"">>, <<"v">>}
BoolPtrs == {<<>>, <<FALSE>>, <<TRUE>>}

\* *BuildRef
BuildRefs ==
  {<<>>} \cup {<<[Name |-> n, APIVersion |-> a]>> : n \in {"", "b"}, a \in StrPtrs}

\* *ServiceAccount
ServiceAccounts ==
  {<<>>} \cup {<<[Name |-> n, Generate |-> g]>> : n \in StrPtrs, g \in BoolPtrs}

\* *LocalObjectReference
LocalObjectReferences == {<<>>} \cup {<<[Name |-> n]>> : n \in {"", "c"}}

\* map[string]string, as its set of entries
StringMaps == {{}, {<<"k", "v">>}}

\* *Image
Images ==
  {<<>>} \cup
  {<<[Image |-> im, Credentials |-> c, Labels |-> l, Annotations |-> a]>> :
     im \in {"", "img"}, c \in LocalObjectReferences,
     l \in StringMaps, a \in StringMaps}

\* *metav1.Duration
Durations == {<<>>, <<[Duration |-> 0]>>, <<[Duration |-> 1]>>}

\* []EnvVar: the nil slice, the empty slice, a slice of one entry
EnvLists == {[isNil |-> TRUE, elems |-> <<>>], [isNil |-> FALSE, elems |-> <<>>],
             [isNil |-> FALSE, elems |-> <<"e">>]}

\* *BuildRunSpec
BuildRunSpecs ==
  {<<>>} \cup
  {<<[BuildRef |-> r, ServiceAccount |-> sa, Output |-> o, Timeout |-> t,
      Env |-> e]>> :
     r \in BuildRefs, sa \in ServiceAccounts, o \in Images, t \in Durations,
     e \in EnvLists}

\* no call of SanitizeBuildRunSpec is modelled
SanIdle ==
  /\ brIn = <<>>
  /\ br = <<>>
  /\ sanPc = "none"

\* a caller is about to hand some *BuildRunSpec to SanitizeBuildRunSpec
SanInit ==
  /\ brIn \in BuildRunSpecs
  /\ br = brIn
  /\ sanPc = "call"

\* what SanitizeBuildRunSpec leaves in the object br points to
SanitizeBuildRunSpec(b) ==
  IF Len(b) = 0 THEN b
  ELSE
    LET s == b[1]
        ref == IF /\ Len(s.BuildRef) # 0
                  /\ s.BuildRef[1].Name = ""
                  /\ Len(s.BuildRef[1].APIVersion) # 0
                  /\ s.BuildRef[1].APIVersion[1] = ""
               THEN <<>> ELSE s.BuildRef
        sa == IF /\ Len(s.ServiceAccount) # 0
                 /\ \/ Len(s.ServiceAccount[1].Name) = 0
                    \/ s.ServiceAccount[1].Name[1] = ""
                 /\ \/ Len(s.ServiceAccount[1].Generate) = 0
                    \/ ~s.ServiceAccount[1].Generate[1]
              THEN <<>> ELSE s.ServiceAccount
        cred == IF Len(s.Output) = 0 THEN <<>>
                ELSE IF /\ Len(s.Output[1].Credentials) # 0
                        /\ s.Output[1].Credentials[1].Name = ""
                     THEN <<>> ELSE s.Output[1].Credentials
        out == IF Len(s.Output) = 0 THEN s.Output
               ELSE IF s.Output[1].Image = "" /\ Len(cred) = 0
                    THEN <<>>
                    ELSE <<[s.Output[1] EXCEPT !.Credentials = cred]>>
        tmo == IF Len(s.Timeout) # 0 /\ s.Timeout[1].Duration = 0
               THEN <<>> ELSE s.Timeout
        env == IF Len(s.Env.elems) = 0
               THEN [isNil |-> TRUE, elems |-> <<>>] ELSE s.Env
    IN <<[BuildRef |-> ref, ServiceAccount |-> sa, Output |-> out,
          Timeout |-> tmo, Env |-> env]>>

\* the call of SanitizeBuildRunSpec(br)
Sanitize ==
  /\ sanPc = "call"
  /\ br' = SanitizeBuildRunSpec(br)
  /\ sanPc' = "done"
  /\ UNCHANGED <<pwVars, tailVars, brIn>>

SanNext == Sanitize

\* ---------------------------------------------------------- specifications
Init == PwInit /\ TailInit /\ SanIdle

\* the watcher and the tail as constructed, and a spec to sanitize
SanStart == PwInit /\ TailInit /\ SanInit

\* one call of SanitizeBuildRunSpec on any *BuildRunSpec
SanSpec == SanStart /\ [][SanNext]_vars

\* the pod watcher alone
Spec == Init /\ [][PwNext]_vars

\* the log tail alone
TailSpec == Init /\ [][TailNext]_vars

\* the log tail under the Go scheduler: a goroutine that can run does run
TailFairness ==
  \A i \in Atts :
    /\ WF_vars(ReaderOpenFail(i) \/ ReaderOpenOk(i))
    /\ WF_vars(ReaderLine(i))
    /\ WF_vars(ReaderEnd(i))
    /\ WF_vars(Closer(i))
    /\ WF_vars(Bridge(i))

TailFairSpec == TailSpec /\ TailFairness

\* ----------------------------------------------------------------- claims
\* the positions of the calls of hooks (not of the skip predicate) in calls
HookCalls == {k \in 1..Len(calls) : calls[k].fn # "skip"}
SkipCalls == {k \in 1..Len(calls) : calls[k].fn = "skip"}

\* notification j has been through a whole iteration of the loop
Processed(j) == j < recvd \/ (j = recvd /\ pwPc \notin {"skip", "switch"})

\* the hook registered for the tag of notification j, if any
TagHook(j) ==
  IF delivered[j].Type = "ADDED" /\ onPodAddedFn THEN "added"
  ELSE IF delivered[j].Type = "MODIFIED" /\ onPodModifiedFn THEN "modified"
  ELSE IF delivered[j].Type = "DELETED" /\ onPodDeletedFn THEN "deleted"
  ELSE "none"

\* the skip predicate answered true for notification j
Skipped(j) == \E k \in SkipCalls : calls[k].idx = j /\ calls[k].skip

\* C1: Start invokes the hooks in delivery order and one per notification at
\* most: every call is made for a delivered notification and with its pod,
\* calls follow the order of delivery, a notification gets at most one call of
\* the skip predicate and then at most one hook, which is the one registered
\* for its tag; a skip answer of true suppresses the hook of that notification
\* and of no other: every processed pod notification with a registered hook
\* and no true skip answer had its hook called.
C1_HooksInDeliveryOrder ==
  /\ \A k \in 1..Len(calls) :
       /\ calls[k].idx \in 1..recvd
       /\ calls[k].pod = delivered[calls[k].idx].Object
       /\ calls[k].pod \in Pods
  /\ \A k \in 1..(Len(calls) - 1) :
       \/ calls[k].idx < calls[k + 1].idx
       \/ /\ calls[k].idx = calls[k + 1].idx
          /\ calls[k].fn = "skip" /\ ~calls[k].skip
          /\ calls[k + 1].fn # "skip"
  /\ \A k \in HookCalls : calls[k].fn = TagHook(calls[k].idx)
  /\ \A k \in HookCalls : ~Skipped(calls[k].idx)
  /\ \A j \in 1..recvd :
       (/\ Processed(j)
        /\ delivered[j].Object \in Pods
        /\ TagHook(j) # "none"
        /\ ~Skipped(j))
         => \E k \in HookCalls : calls[k].idx = j

\* two notifications were received, the skip predicate suppressed the first
\* and the hook of the second was called
C1_Witness ==
  \E k \in SkipCalls : \E l \in HookCalls :
    /\ calls[k].skip
    /\ calls[k].idx < calls[l].idx

\* C2: a hook error ends Start at once: the failing call is the last call of
\* any hook or skip predicate, Start has returned its error and the pod of the
\* notification being processed, and no later notification was received.
C2_HookErrorEndsLoop ==
  \A k \in 1..Len(calls) :
    calls[k].err # NoErr =>
      /\ k = Len(calls)
      /\ pwPc = "ret_hook"
      /\ retErr = calls[k].err
      /\ retPod = calls[k].pod
      /\ retPod = delivered[recvd].Object
      /\ recvd = calls[k].idx

\* Start returned a hook error while a later notification was still buffered
C2_Witness ==
  /\ pwPc = "ret_hook"
  /\ retErr \in Errs
  /\ recvd < Len(delivered)
  /\ delivered[recvd + 1].Object \in Pods

\* C3: when Start has left its loop through the stop channel or through the
\* context, it has called Stop on the watch and returns a nil pod and a nil
\* error.
C3_StopExitReleasesWatch ==
  pwPc \in {"ret_ctx", "ret_stop"} =>
    /\ watcherStops >= 1
    /\ retPod = NilObj
    /\ retErr = NoErr

\* Start left through the stop channel after it had called hooks
C3_Witness ==
  /\ pwPc = "ret_stop"
  /\ HookCalls # {}

\* C4: once the stop signal was fired during a run of Start, Start returns
\* only with a nil error and with Stop called on the watch.
C4_StopGivesNilAndRelease ==
  (stopInRun /\ PwReturned) => (retErr = NoErr /\ watcherStops >= 1)

\* C5: once Start has returned, by the stop signal, by cancellation or by a
\* hook error, Stop has been called on the watch.
C5_EveryExitReleasesWatch ==
  PwReturned => watcherStops >= 1

\* C6: calling PodWatcher.Stop more than once does not panic.
C6_PwStopTwiceNoPanic ==
  pwStops >= 2 => ~pwPanic

\* attachment i failed to open its stream
OpenFailed(i) == rdPc[i] = "done" /\ stream[i] = "none"

\* no goroutine of the tail can take a step
TailQuiet ==
  \A i \in Atts :
    /\ rdPc[i] # "open"
    /\ rdPc[i] = "scan" => (pos[i] = sent[i] /\ ~ScanEnds(i))
    /\ closerPc[i] = "wait" => ~tStopClosed
    /\ bridgePc[i] = "wait" => ~tCtxDone

\* the run is over: the process panicked, or every goroutine is finished or
\* blocked for good
TailHalted == tPanic # "none" \/ TailQuiet

\* every stream that was opened is closed and its reader has ended
AllReleased ==
  \A i \in Atts :
    stream[i] # "none" =>
      /\ stream[i] = "closed"
      /\ closes[i] >= 1
      /\ rdPc[i] = "done"

\* every goroutine that was started has ended
AllTasksDone ==
  \A i \in Atts :
    /\ rdPc[i] \in {"idle", "done"}
    /\ closerPc[i] \in {"none", "done"}
    /\ bridgePc[i] \in {"none", "done"}

\* C7: a second call of Tail.Stop, and a call of Tail.Stop on an instance
\* with no attachment, does not fault.
C7_TailStopNeverFaults ==
  (tStops >= 2 \/ nAtt = 0) => tPanic # "Stop"

\* C8: after Tail.Stop was called (once), when the run is over every stream
\* that was opened is closed and its reader has ended, whatever the number of
\* attachments and wherever the readers were at the time of the stop.
C8_StopClosesEveryStream ==
  (tStops = 1 /\ TailHalted) => AllReleased

\* C9: with the context cancelled and Stop never called, no task faults and,
\* once the run is over, every stream is closed and every task has ended.
C9_CancelActsAsStop ==
  (tCtxDone /\ tStops = 0) =>
    /\ tPanic = "none"
    /\ TailHalted => (AllReleased /\ AllTasksDone)

\* C10: a reader whose stream failed to open wrote its error to the error
\* sink, once, wrote nothing to the output sink, spawned nothing and ended;
\* the error sink holds nothing else; and another attachment whose stream was
\* ended by the remote side, with no stop signal, delivered every line it
\* received, in order.
C10_OpenFailureIsIsolated ==
  /\ \A i \in Atts :
       OpenFailed(i) =>
         /\ Cardinality({k \in 1..Len(stderr) : stderr[k].att = i}) = 1
         /\ stdout[i] = <<>>
         /\ closerPc[i] = "none"
  /\ \A k \in 1..Len(stderr) :
       OpenFailed(stderr[k].att) /\ stderr[k].err = "openErr"
  /\ \A j \in Atts :
       (rdPc[j] = "done" /\ ~OpenFailed(j) /\ ~tStopClosed) =>
         /\ Len(stdout[j]) = sent[j]
         /\ \A n \in 1..sent[j] : stdout[j][n][4] = LineText(n)

\* one stream failed to open and another one, attached with it, delivered
\* every line of the remote side
C10_Witness ==
  \E i \in Atts : \E j \in Atts :
    /\ OpenFailed(i)
    /\ rdPc[j] = "done" /\ ~OpenFailed(j) /\ ~tStopClosed
    /\ sent[j] = MaxLines
    /\ Len(stdout[j]) = MaxLines

\* after a stop, the run of a tail that does not panic ends with every stream
\* closed (the property of C8 outside the double close of the stop channel)
StopReleasesUnlessPanic ==
  (tStops >= 1) ~> (AllReleased \/ tPanic # "none")

\* the display name of a container: its name without one leading "step-"
DisplayName(c) ==
  IF c = <<>> THEN <<>>
  ELSE IF Head(c) = "step-" THEN SubSeq(c, 2, Len(c)) ELSE c

\* C11: what reader i wrote to the output sink is, line for line and in the
\* order of the stream, the lines the scanner returned, each written as
\* "[<displayName>] <line>\n" with the display name being the container name
\* less one leading "step-"; nothing is written for a line not yet sent.
C11_LinesInOrderFormatted ==
  \A i \in Atts :
    /\ Len(stdout[i]) = pos[i]
    /\ pos[i] <= sent[i]
    /\ \A n \in 1..Len(stdout[i]) :
         stdout[i][n] = <<"[", DisplayName(ContainerOf(i)), "] ", LineText(n), "\n">>

\* two streams read side by side: both have written a line and neither
\* reader has ended, and the first one has written two lines in order
C11_Witness ==
  /\ MaxAtt >= 2
  /\ rdPc[1] = "scan" /\ rdPc[2] = "scan"
  /\ Len(stdout[1]) = 2 /\ Len(stdout[2]) >= 1
  /\ stdout[1][1][2] = <<"build">>

\* the calls, of the skip predicate or of a hook, made for notification j
CallsFor(j) == {k \in 1..Len(calls) : calls[k].idx = j}

\* C12: a pod notification whose tag has no registered hook has no effect:
\* no hook is called for it, Start does not return an error because of it,
\* and once it is processed the loop is back at its select (which it leaves
\* only through the stop signal or the cancellation).
C12_UnregisteredTagNoEffect ==
  \A j \in 1..recvd :
    (delivered[j].Object \in Pods /\ TagHook(j) = "none") =>
      /\ CallsFor(j) \cap HookCalls = {}
      /\ (j = recvd /\ pwPc # "skip" /\ pwPc # "switch") =>
           /\ pwPc \in {"select", "ret_ctx", "ret_stop"}
           /\ retErr = NoErr /\ retPod = NilObj

\* a DELETED notification with no delete hook was passed over and the
\* notification after it had its hook called
C12_Witness ==
  /\ ~onPodDeletedFn
  /\ recvd = 2
  /\ delivered[1].Type = "DELETED" /\ delivered[1].Object \in Pods
  /\ CallsFor(1) \cap HookCalls = {}
  /\ CallsFor(2) \cap HookCalls # {}

\* C14: a notification with no payload, or with a payload that is not a pod,
\* is dropped: neither the skip predicate nor a hook is called for it, and
\* right after it the loop is back at its select, without a returned error.
C14_NonPodPayloadDropped ==
  /\ \A j \in 1..recvd :
       delivered[j].Object \notin Pods =>
         /\ CallsFor(j) = {}
         /\ j = recvd =>
              /\ pwPc \in {"select", "ret_ctx", "ret_stop"}
              /\ retErr = NoErr /\ retPod = NilObj
  /\ CallsFor(0) = {}

\* a notification carrying a status object was dropped and the notification
\* after it had the skip predicate and its hook called
C14_Witness ==
  /\ recvd = 2
  /\ delivered[1].Object = NotPod
  /\ CallsFor(1) = {}
  /\ CallsFor(2) \cap HookCalls # {}
  /\ CallsFor(2) \cap SkipCalls # {}

\* C13: the stop channel of a Tail is closed once and closing it never
\* panics, whatever the order of the calls of Start and Stop and of the
\* cancellation of the context.
C13_StopSignalNeverFaults ==
  tPanic = "none"

\* C15: a reader whose stream ended, by end-of-stream or by a read error, and
\* that has returned, has closed its stream and has written every line it
\* received and nothing to the error sink; the end of one stream stops
\* neither the tail nor the reader of another attachment.
C15_StreamEndEndsReaderOnly ==
  \A i \in Atts :
    (rdPc[i] = "done" /\ remote[i] \in {"eof", "err"}) =>
      /\ stream[i] = "closed" /\ closes[i] >= 1
      /\ \A k \in 1..Len(stderr) : stderr[k].att # i
      /\ Len(stdout[i]) = sent[i]
      /\ (~tStopClosed /\ ~tCtxDone) =>
           /\ tPanic = "none"
           /\ \A j \in Atts \ {i} :
                /\ (rdPc[j] = "scan" /\ remote[j] = "live") => stream[j] = "open"
                /\ (rdPc[j] = "scan" /\ pos[j] < sent[j]) => ENABLED ReaderLine(j)

\* one reader has returned after a read error while the other, attached with
\* it, reads on: a line is waiting for it and it has written another before
C15_Witness ==
  \E i \in Atts : \E j \in Atts :
    /\ rdPc[i] = "done" /\ remote[i] = "err" /\ sent[i] >= 1
    /\ rdPc[j] = "scan" /\ remote[j] = "live"
    /\ pos[j] >= 1 /\ pos[j] < sent[j]
    /\ ~tStopClosed /\ ~tCtxDone

\* every attachment was started, has reached the end of its stream and its
\* reader has returned
TailCompleted ==
  /\ nAtt >= 1
  /\ \A i \in 1..nAtt : rdPc[i] = "done" /\ remote[i] = "eof"

\* C16: a first call of Tail.Stop made once every attached stream has reached
\* its end does not fault. (A panic ends the run, so the state of a panic in
\* Stop is the state in which Stop was called.)
C16_StopAfterCompletionSafe ==
  (tStops = 1 /\ TailCompleted) => tPanic # "Stop"

\* the half of C16 about the pod watcher: a first call of PodWatcher.Stop made
\* after Start has returned on a hook error or on cancellation does not fault
PwStopAfterReturnSafe ==
  (pwStops = 1 /\ ~stopInRun /\ pwPc \in {"ret_hook", "ret_ctx"}) => ~pwPanic

\* C17: Start never waits: as long as the process runs (and the model has an
\* attachment left) it can be called, whatever the readers started before it
\* are doing; each call adds one reader, for the name it was given, and
\* leaves the readers, streams and sinks of the other attachments as they are.
C17_StartIsFireAndForget ==
  /\ [](/\ (TailUp /\ nAtt < MaxAtt) => ENABLED TailStart
        /\ Cardinality({i \in Atts : rdPc[i] # "idle"}) = nAtt)
  /\ [][nAtt' # nAtt =>
          /\ nAtt' = nAtt + 1
          /\ rdPc[nAtt'] = "idle" /\ rdPc'[nAtt'] = "open"
          /\ container'[nAtt'] = ContainerOf(nAtt')
          /\ \A j \in Atts \ {nAtt'} :
               rdPc'[j] = rdPc[j] /\ container'[j] = container[j]
          /\ UNCHANGED <<stream, closerPc, sent, remote, pos, stdout, stderr>>
       ]_vars

\* a second Start was made while the first reader is in the middle of its
\* stream, a line written and the next one waiting
C17_Witness ==
  /\ MaxAtt >= 2
  /\ rdPc[1] = "scan" /\ pos[1] = 1 /\ sent[1] = 2
  /\ rdPc[2] = "open"

\* the remote side closed the result channel and Start has taken everything
\* that was sent on it
Drained == chanClosed /\ recvd = Len(delivered)

\* C19: Start returns only through a hook error, the stop signal or the
\* cancellation of the context; at its select on a closed and drained result
\* channel, Start stays in the loop unless the stop signal or the
\* cancellation takes it out, and the empty notifications it receives there
\* call no skip predicate and no hook.
C19_ClosedChannelNeverReturns ==
  /\ [](/\ pwPc = "ret_hook" =>
             (calls # <<>> /\ calls[Len(calls)].err # NoErr /\ retErr # NoErr)
        /\ pwPc = "ret_ctx" => pwCtxDone
        /\ pwPc = "ret_stop" => pwStopClosed)
  /\ [][(Drained /\ pwPc = "select") =>
          /\ calls' = calls
          /\ \/ pwPc' = "select"
             \/ pwPc' = "ret_ctx" /\ pwCtxDone
             \/ pwPc' = "ret_stop" /\ pwStopClosed
       ]_vars

\* after the last notification Start has received the zero event of the
\* closed channel and is back at its select, with no stop and no cancellation
C19_Witness ==
  /\ Drained /\ recvd >= 1
  /\ delivered[recvd].Object \in Pods
  /\ event = ZeroEvent /\ evIdx = 0
  /\ pwPc = "select"
  /\ ~pwStopClosed /\ ~pwCtxDone

\* C20: a reader that opened its stream and has returned has closed it, at
\* least once, whatever made it return; the stop signal does not keep a
\* reader from opening its stream: a reader started with the stop channel
\* closed still opens and then closes it.
C20_OpenedStreamIsClosed ==
  \A i \in Atts :
    /\ (rdPc[i] = "done" /\ stream[i] # "none") =>
         (stream[i] = "closed" /\ closes[i] >= 1)
    /\ stream[i] = "closed" <=> closes[i] >= 1
    /\ (TailUp /\ rdPc[i] = "open") => ENABLED ReaderOpenOk(i)

\* after one Stop, a reader whose remote end is still live has returned, its
\* stream closed by the closer and by the reader
C20_Witness ==
  /\ tStops = 1 /\ TailUp
  /\ \E i \in Atts :
       /\ rdPc[i] = "done" /\ stream[i] = "closed" /\ remote[i] = "live"
       /\ closerPc[i] = "done" /\ closes[i] = 2

\* a pointer to a string or to a boolean that is unset or holds a zero value
ZeroStrPtr(p) == Len(p) = 0 \/ p[1] = ""
ZeroBoolPtr(p) == Len(p) = 0 \/ p[1] = FALSE

\* all fields of the sub-structure hold zero values
ZeroBuildRef(r) == r.Name = "" /\ ZeroStrPtr(r.APIVersion)
ZeroServiceAccount(sa) == ZeroStrPtr(sa.Name) /\ ZeroBoolPtr(sa.Generate)
ZeroCredentials(c) == c.Name = ""
ZeroOutput(o) ==
  /\ o.Image = ""
  /\ Len(o.Credentials) = 0 \/ ZeroCredentials(o.Credentials[1])
  /\ o.Labels = {}
  /\ o.Annotations = {}
ZeroTimeout(t) == t.Duration = 0

\* the sanitized sub-structures that, taken alone, are omitted exactly when
\* all their fields are zero: ServiceAccount, Output.Credentials, Timeout, Env
SanitizeSoundParts ==
  (sanPc = "done" /\ Len(brIn) # 0) =>
    LET in == brIn[1]
        out == br[1]
    IN /\ Len(br) # 0
       /\ Len(in.ServiceAccount) # 0 =>
            (Len(out.ServiceAccount) = 0 <=>
               ZeroServiceAccount(in.ServiceAccount[1]))
       /\ Len(in.ServiceAccount) = 0 => Len(out.ServiceAccount) = 0
       /\ (Len(out.Output) # 0 /\ Len(in.Output[1].Credentials) # 0) =>
            (Len(out.Output[1].Credentials) = 0 <=>
               ZeroCredentials(in.Output[1].Credentials[1]))
       /\ Len(in.Timeout) # 0 =>
            (Len(out.Timeout) = 0 <=> ZeroTimeout(in.Timeout[1]))
       /\ out.Env.isNil <=> Len(in.Env.elems) = 0

\* C18: after SanitizeBuildRunSpec on a non-nil spec, BuildRef,
\* ServiceAccount, Output, Output.Credentials and Timeout are nil whenever all
\* their fields hold zero values, Env is nil when it has no entries, and a
\* sub-structure holding a non-zero field is kept.
C18_ZeroSubStructuresOmitted ==
  (sanPc = "done" /\ Len(brIn) # 0) =>
    LET in == brIn[1]
        out == br[1]
    IN /\ Len(br) # 0
       /\ Len(in.BuildRef) # 0 =>
            (Len(out.BuildRef) = 0 <=> ZeroBuildRef(in.BuildRef[1]))
       /\ Len(in.ServiceAccount) # 0 =>
            (Len(out.ServiceAccount) = 0 <=>
               ZeroServiceAccount(in.ServiceAccount[1]))
       /\ Len(in.Output) # 0 =>
            (Len(out.Output) = 0 <=> ZeroOutput(in.Output[1]))
       /\ (Len(out.Output) # 0 /\ Len(in.Output[1].Credentials) # 0) =>
            (Len(out.Output[1].Credentials) = 0 <=>
               ZeroCredentials(in.Output[1].Credentials[1]))
       /\ Len(in.Timeout) # 0 =>
            (Len(out.Timeout) = 0 <=> ZeroTimeout(in.Timeout[1]))
       /\ out.Env.isNil <=> Len(in.Env.elems) = 0

====
